---- MODULE Spec2Model ----
(***************************************************************************)
(* Leaderboard reporter workers of icfpc2025.                              *)
(*                                                                         *)
(* Two Cloudflare workers post the contest leaderboard to a chat webhook:  *)
(*   - the HTML worker (src/unnamed/part_000) scrapes a <table> and        *)
(*     renders it with tableToMarkdown;                                    *)
(*   - the API worker (src/reporter/src/index.ts) reads a JSON array and   *)
(*     renders it with responseToMarkdown.                                 *)
(*                                                                         *)
(* Strings are TLA+ strings (Len = String.length, \o = concatenation).     *)
(* A markdown text is modelled as the sequence of its "\n"-terminated      *)
(* lines.  Time is counted in seconds since 2025-09-05T00:00:00Z.          *)
(***************************************************************************)
EXTENDS Integers, Sequences, FiniteSets, TLC

VARIABLES
    now,         \* the wall clock, read by `new Date()`
    pc,          \* pc[i]: where invocation i of `scheduled` stands
    worker,      \* worker[i]: "html" | "api" | "none", the worker invoked
    dateWindow,  \* dateWindow[i]: the `new Date()` given to isContestPeriod
    dateMinute,  \* dateMinute[i]: the `new Date()` given to is0Minute
    payload,     \* payload[i]: what the leaderboard fetch resolved to
    net,         \* net[i]: the network calls of invocation i, in order
    posted,      \* posted[i]: the `content` of the POST body
    console      \* console[i]: the diagnostics logged by invocation i

vars == <<now, pc, worker, dateWindow, dateMinute, payload, net, posted, console>>

-----------------------------------------------------------------------------
(* Bounds of the model.                                                    *)

\* Longest leaderboard (number of body rows / JSON items) that is fetched.
MaxRows == 13

-----------------------------------------------------------------------------
(* JavaScript library functions used by both workers.                      *)

RECURSIVE repeat(_, _)
\* String.prototype.repeat
repeat(s, n) == IF n <= 0 THEN "" ELSE s \o repeat(s, n - 1)

\* The value NaN, as produced by Math.max(undefined, n).
NaN == -1

\* String.prototype.padEnd: pads with spaces up to n, never truncates;
\* ToLength(NaN) = 0, so a NaN target leaves the string alone.
padEnd(s, n) == IF n = NaN \/ n <= Len(s) THEN s ELSE s \o repeat(" ", n - Len(s))

\* Math.max of two arguments; NaN is contagious.
MathMax(a, b) == IF a = NaN \/ b = NaN THEN NaN ELSE IF a >= b THEN a ELSE b

RECURSIVE join(_, _)
\* Array.prototype.join
join(strs, sep) ==
    IF Len(strs) = 0 THEN ""
    ELSE IF Len(strs) = 1 THEN strs[1]
    ELSE strs[1] \o sep \o join(Tail(strs), sep)

Digits == <<"0", "1", "2", "3", "4", "5", "6", "7", "8", "9">>

RECURSIVE toString(_)
\* Number.prototype.toString of a non-negative integer
toString(n) == IF n < 10 THEN Digits[n + 1] ELSE toString(n \div 10) \o Digits[(n % 10) + 1]

-----------------------------------------------------------------------------
(* The Time Gate.                                                          *)

CONTEST_START_AT == 43200
CONTEST_END_AT == 302400

\* A window that leaves out its two end points.
isContestPeriodExclusive(date) == date > CONTEST_START_AT /\ date < CONTEST_END_AT

isContestPeriod(date) == date >= CONTEST_START_AT /\ date <= CONTEST_END_AT

\* Date.prototype.getMinutes (the worker runtime's time zone is UTC)
getMinutes(date) == (date \div 60) % 60

is0Minute(date) == getMinutes(date) = 0

-----------------------------------------------------------------------------
(* HTML worker: tableToMarkdown.                                           *)
(* A table is [hasThead, th, rows]: th the texts of the <th> cells of the  *)
(* <thead>, rows the <tbody> rows, each the sequence of its <td> texts.    *)

RANKING_PAGE_URL == "https://icfpcontest2025.github.io/aedificium.html"

\* The code-fence marker: three grave accents, written as three apostrophes
\* because a TLA+ string cannot hold a grave accent.
FENCE == "'''"

isMaximum(text) == text = "Maximum"

isMaximumRow(row) == \E c \in 1..Len(row) : isMaximum(row[c])

\* maxLengths[index] = Math.max(maxLengths[index], cell.text.length) for the
\* cells of one row; an index beyond the array reads undefined, giving NaN.
RECURSIVE widenByRow(_, _, _)
widenByRow(maxLengths, row, c) ==
    IF c > Len(row) THEN maxLengths
    ELSE IF c <= Len(maxLengths)
         THEN widenByRow([maxLengths EXCEPT ![c] = MathMax(@, Len(row[c]))], row, c + 1)
         ELSE widenByRow(Append(maxLengths, NaN), row, c + 1)

\* Widths taken from the header cells alone.
maxLengthsHeaderOnly(th, rows) == [c \in 1..Len(th) |-> Len(th[c])]

RECURSIVE widenByRows(_, _, _)
widenByRows(maxLengths, rows, r) ==
    IF r > Len(rows) THEN maxLengths
    ELSE widenByRows(widenByRow(maxLengths, rows[r], 1), rows, r + 1)

\* The column widths after the first rows.forEach (lines 23-34).
computeMaxLengths(th, rows) ==
    widenByRows([c \in 1..Len(th) |-> Len(th[c])], rows, 1)

\* The value of maximumRank after the first rows.forEach: the first-column
\* text of the last row that isMaximumRow; hasRank is FALSE for undefined.
RECURSIVE maximumRankLoop(_, _, _)
maximumRankLoop(rows, r, acc) ==
    IF r > Len(rows) THEN acc
    ELSE maximumRankLoop(rows, r + 1,
            IF isMaximumRow(rows[r]) THEN [hasRank |-> TRUE, text |-> rows[r][1]] ELSE acc)

maximumRankOf(rows) == maximumRankLoop(rows, 1, [hasRank |-> FALSE, text |-> ""])

\* A test for `maximumRank !== undefined`.
truthyRankAlways(maximumRank) == maximumRank.hasRank

\* `if (maximumRank)`: undefined and the empty string are both falsy.
truthyRank(maximumRank) == maximumRank.hasRank /\ maximumRank.text # ""

highlightLine(maximumRank) == "Maximum is **" \o maximumRank.text \o "th**"

\* The second rows.forEach (lines 44-52): the 0-based indexes of the rows
\* whose line is appended, in order.  index is 0-based as in the source.
includedHtml(isMaximumIncluded, index) == ~(isMaximumIncluded /\ index > 10)

RECURSIVE bodyLoopHtml(_, _, _, _)
bodyLoopHtml(rows, index, isMaximumIncluded, acc) ==
    IF index >= Len(rows) THEN acc
    ELSE LET flag == isMaximumIncluded \/ isMaximumRow(rows[index + 1])
         IN  bodyLoopHtml(rows, index + 1, flag,
                IF includedHtml(flag, index) THEN Append(acc, index) ELSE acc)

shownHtml(rows) == bodyLoopHtml(rows, 0, FALSE, <<>>)

headerLine(th, maxLengths) ==
    "| " \o join([c \in 1..Len(th) |-> padEnd(th[c], maxLengths[c])], " | ") \o " |"

separatorLine(th, maxLengths) ==
    "| " \o join([c \in 1..Len(th) |-> repeat("-", maxLengths[c])], " | ") \o " |"

rowLine(cells, maxLengths) ==
    "| " \o join([c \in 1..Len(cells) |-> padEnd(cells[c], maxLengths[c])], " | ") \o " |"

\* The lines between the opening and the closing fence.
fencedHtml(table) ==
    LET maxLengths == computeMaxLengths(table.th, table.rows)
        shown == shownHtml(table.rows)
    IN  <<headerLine(table.th, maxLengths), separatorLine(table.th, maxLengths)>>
        \o [k \in 1..Len(shown) |-> rowLine(table.rows[shown[k] + 1], maxLengths)]

\* tableToMarkdown: [defined |-> FALSE] is the `return;` of line 19.
tableToMarkdown(table) ==
    IF ~table.hasThead THEN [defined |-> FALSE, lines |-> <<>>]
    ELSE LET maximumRank == maximumRankOf(table.rows)
         IN  [defined |-> TRUE,
              lines |-> (IF truthyRank(maximumRank)
                         THEN <<highlightLine(maximumRank)>> ELSE <<>>)
                        \o <<RANKING_PAGE_URL, FENCE \o "markdown">>
                        \o fencedHtml(table)
                        \o <<FENCE>>]

-----------------------------------------------------------------------------
(* API worker: responseToMarkdown.                                         *)
(* results is the sequence of the items [teamName, score] of the JSON      *)
(* array (teamPl is never read).                                           *)

RANK_MAX_LENGTH == 5
TEAM_NAME_MAX_LENGTH == 60
SCORE_MAX_LENGTH == 5

\* A seed of prevScore that never throws.
throwsTypeErrorNever(results) == FALSE

\* `results[0].score` of an empty array reads a property of undefined.
throwsTypeError(results) == Len(results) = 0

\* A step that forgets `prevScore = result.score`.
rankStepKeepPrev(st, result) ==
    IF result.score # st.prevScore
    THEN [rank |-> st.rank + 1, prevScore |-> st.prevScore]
    ELSE st

\* Lines 27-30: the rank counter and the previous score after one item.
rankStep(st, result) ==
    IF result.score # st.prevScore
    THEN [rank |-> st.rank + 1, prevScore |-> result.score]
    ELSE st

\* A test that keeps the first ten items only.
includedApiTopOnly(result, idx) == idx < 10

\* Line 31: is the line of this item appended?  idx is 0-based.
includedApi(result, idx) == result.teamName = "Maximum" \/ idx < 10

\* A loop that advances the rank only on the items it prints.
RECURSIVE responseLoopRankOnShown(_, _, _, _)
responseLoopRankOnShown(results, idx, st, acc) ==
    IF idx >= Len(results) THEN acc
    ELSE LET result == results[idx + 1]
             shown == includedApi(result, idx)
             next == IF shown THEN rankStep(st, result) ELSE st
         IN  responseLoopRankOnShown(results, idx + 1, next,
                Append(acc, [idx |-> idx, rank |-> next.rank, shown |-> shown]))

\* The for-of loop of lines 26-37: one record per iteration, with the value
\* of rank at line 31 and whether the item's line is appended.
RECURSIVE responseLoop(_, _, _, _)
responseLoop(results, idx, st, acc) ==
    IF idx >= Len(results) THEN acc
    ELSE LET result == results[idx + 1]
             next == rankStep(st, result)
         IN  responseLoop(results, idx + 1, next,
                Append(acc, [idx |-> idx, rank |-> next.rank,
                             shown |-> includedApi(result, idx)]))

iterationsApi(results) ==
    IF Len(results) = 0 THEN <<>>
    ELSE responseLoop(results, 0, [rank |-> 1, prevScore |-> results[1].score], <<>>)

\* The iterations whose line is appended, in order.
shownApi(results) == SelectSeq(iterationsApi(results), LAMBDA it : it.shown)

apiHeaderLine ==
    "| " \o padEnd("Rank", RANK_MAX_LENGTH) \o " | " \o padEnd("Team Name", TEAM_NAME_MAX_LENGTH)
         \o " | " \o padEnd("Score", SCORE_MAX_LENGTH) \o " |"

apiSeparatorLine ==
    "| " \o repeat("-", RANK_MAX_LENGTH) \o " | " \o repeat("-", TEAM_NAME_MAX_LENGTH)
         \o " | " \o repeat("-", SCORE_MAX_LENGTH) \o " |"

apiRowLine(rank, result) ==
    "| " \o padEnd(toString(rank), RANK_MAX_LENGTH) \o " | "
         \o padEnd(result.teamName, TEAM_NAME_MAX_LENGTH) \o " | "
         \o padEnd(toString(result.score), SCORE_MAX_LENGTH) \o " |"

\* responseToMarkdown: [threw |-> TRUE] is the TypeError of line 18.
responseToMarkdown(results) ==
    IF throwsTypeError(results) THEN [threw |-> TRUE, lines |-> <<>>]
    ELSE LET shown == shownApi(results)
         IN  [threw |-> FALSE,
              lines |-> <<FENCE, apiHeaderLine, apiSeparatorLine>>
                        \o [k \in 1..Len(shown) |->
                              apiRowLine(shown[k].rank, results[shown[k].idx + 1])]
                        \o <<FENCE>>]

-----------------------------------------------------------------------------
(* What the two fetches can resolve to.                                    *)

\* The payload record: the parsed document of the HTML worker (hasTable,
\* hasThead, th, rows) and the response body of the API worker (parsed is
\* FALSE when resp.json() throws, results the array otherwise).
NoPayload ==
    [hasTable |-> FALSE, hasThead |-> FALSE, th |-> <<>>, rows |-> <<>>,
     parsed |-> FALSE, results |-> <<>>]

HtmlDoc(hasTable, hasThead, th, rows) ==
    [hasTable |-> hasTable, hasThead |-> hasThead, th |-> th, rows |-> rows,
     parsed |-> FALSE, results |-> <<>>]

ApiBody(parsed, results) ==
    [hasTable |-> FALSE, hasThead |-> FALSE, th |-> <<>>, rows |-> <<>>,
     parsed |-> parsed, results |-> results]

\* The first n cells of a row.
Cut(cells, n) == SubSeq(cells, 1, IF n < Len(cells) THEN n ELSE Len(cells))

\* Body rows of the scraped page, by kind; index is 0-based, ncol the number
\* of header columns.
HtmlRow(kind, index, ncol) ==
    CASE kind = "plain"     -> Cut(<<toString(index + 1), "Alpha", "100">>, ncol)
      [] kind = "max"       -> Cut(<<toString(index + 1), "Maximum", "90">>, ncol)
      [] kind = "maxNoRank" -> Cut(<<"", "Maximum", "90">>, ncol)
      [] kind = "maxFirst"  -> Cut(<<"Maximum", "Beta", "5">>, ncol)
      [] kind = "lower"     -> Cut(<<toString(index + 1), "maximum", "80">>, ncol)
      [] kind = "long"      -> Cut(<<toString(index + 1), "Team Long Name", "12345">>, ncol)
      [] kind = "short"     -> Cut(<<toString(index + 1), "Alpha", "100">>, ncol - 1)
      [] kind = "wide"      -> Cut(<<toString(index + 1), "Alpha", "100", "extra">>, ncol + 1)

HtmlKinds1 == {"max", "maxNoRank", "maxFirst", "lower", "long", "short", "wide"}
HtmlKinds2 == {"max", "maxNoRank", "long"}

\* Positions (1-based, 0 for none) of at most two rows that are not plain.
Marks(n) == {m \in (0..n) \X (0..n) : (m[1] = 0 /\ m[2] = 0) \/ (0 < m[1] /\ (m[2] = 0 \/ m[1] < m[2]))}

HtmlRows(n, ncol, m, k1, k2) ==
    [r \in 1..n |-> IF r = m[1] THEN HtmlRow(k1, r - 1, ncol)
                    ELSE IF r = m[2] THEN HtmlRow(k2, r - 1, ncol)
                    ELSE HtmlRow("plain", r - 1, ncol)]

HtmlHeaders == {<<"Rank", "Team", "Score">>}

HtmlTablesOfLength(n) ==
    {HtmlDoc(TRUE, TRUE, th, HtmlRows(n, Len(th), m, k1, k2)) :
        th \in HtmlHeaders, m \in Marks(n), k1 \in HtmlKinds1, k2 \in HtmlKinds2}

HtmlTables == UNION {HtmlTablesOfLength(n) : n \in 0..MaxRows}

\* Documents the ranking page can parse to: no <table>, a table without a
\* <thead>, and tables of up to MaxRows body rows.
HtmlDocs ==
    {HtmlDoc(FALSE, FALSE, <<>>, <<>>)}
    \cup {HtmlDoc(TRUE, FALSE, <<>>, HtmlRows(n, 2, <<n, 0>>, "max", "max")) : n \in 0..2}
    \cup HtmlTables

\* Scores of the leaderboard by pattern: strictly descending, tied in pairs,
\* tied in triples, all tied, and an unsorted alternation.
Score(pattern, idx) ==
    CASE pattern = "distinct" -> 50 - idx
      [] pattern = "pairs"    -> 50 - (idx \div 2)
      [] pattern = "triples"  -> 50 - ((idx + 1) \div 3)
      [] pattern = "flat"     -> 7
      [] pattern = "zigzag"   -> 9 + (idx % 2)

ScorePatterns == {"distinct", "pairs", "triples", "flat", "zigzag"}

ApiNames == {"Maximum", "maximum"}

ApiResults(n, m, n1, n2, pattern) ==
    [r \in 1..n |-> [teamName |-> IF r = m[1] THEN n1 ELSE IF r = m[2] THEN n2 ELSE "Alpha",
                     score |-> Score(pattern, r - 1)]]

ApiArraysOfLength(n) ==
    {ApiBody(TRUE, ApiResults(n, m, n1, n2, pattern)) :
        m \in Marks(n), n1 \in ApiNames, n2 \in {"Maximum"}, pattern \in ScorePatterns}

\* Bodies the leaderboard API can answer with: one that is no JSON, and
\* arrays of up to MaxRows items (the empty array among them).
ApiBodies ==
    {ApiBody(FALSE, <<>>)}
    \cup UNION {ApiArraysOfLength(n) : n \in 0..MaxRows}

\* A few payloads of each kind, for the runs with overlapping invocations.
HtmlDocsCompact ==
    {HtmlDoc(FALSE, FALSE, <<>>, <<>>),
     HtmlDoc(TRUE, FALSE, <<>>, HtmlRows(2, 2, <<2, 0>>, "max", "max")),
     HtmlDoc(TRUE, TRUE, <<"#", "Team">>, HtmlRows(3, 2, <<2, 0>>, "max", "max")),
     HtmlDoc(TRUE, TRUE, <<"#", "Team">>, HtmlRows(12, 2, <<12, 0>>, "max", "max"))}

ApiBodiesCompact ==
    {ApiBody(FALSE, <<>>),
     ApiBody(TRUE, <<>>),
     ApiBody(TRUE, ApiResults(3, <<2, 0>>, "Maximum", "Maximum", "pairs")),
     ApiBody(TRUE, ApiResults(12, <<12, 0>>, "Maximum", "Maximum", "distinct"))}

-----------------------------------------------------------------------------
(* The scheduled handlers.  An invocation runs from one await to the next  *)
(* in one step; invocations interleave only at the awaits.                 *)

Invocations == {"a", "b"}

\* The instants the clock is observed at: around the opening and the end of
\* the contest, and at minutes 0, 1 and 59 of an hour inside it.
Clock ==
    {CONTEST_START_AT - 60, CONTEST_START_AT - 1, CONTEST_START_AT,
     CONTEST_START_AT + 60, CONTEST_START_AT + 3599,
     CONTEST_START_AT + 3600, CONTEST_END_AT,
     CONTEST_END_AT + 1, CONTEST_END_AT + 3600}

NotSent == [sent |-> FALSE, defined |-> FALSE, lines |-> <<>>]

Init ==
    /\ now \in Clock
    /\ pc = [i \in Invocations |-> "idle"]
    /\ worker = [i \in Invocations |-> "none"]
    /\ dateWindow = [i \in Invocations |-> 0]
    /\ dateMinute = [i \in Invocations |-> 0]
    /\ payload = [i \in Invocations |-> NoPayload]
    /\ net = [i \in Invocations |-> <<>>]
    /\ posted = [i \in Invocations |-> NotSent]
    /\ console = [i \in Invocations |-> <<>>]

\* Time passes.
Tick ==
    /\ \E t \in Clock : t > now
    /\ now' = CHOOSE t \in Clock : t > now /\ \A u \in Clock : u > now => t <= u
    /\ UNCHANGED <<pc, worker, dateWindow, dateMinute, payload, net, posted, console>>

\* The second `new Date()` of the HTML worker is evaluated after the first:
\* it reads the same second or the next one.
LaterReads == {t \in Clock : t = now \/ t = now + 1}

\* The call of fetch(url): the request is recorded, the invocation awaits.
callFetch(log, method) == Append(log, method)

\* HTML worker, lines 58-67: both gate checks, then the fetch of the page.
ScheduledHtml(i) ==
    /\ pc[i] = "idle"
    /\ worker' = [worker EXCEPT ![i] = "html"]
    /\ dateWindow' = [dateWindow EXCEPT ![i] = now]
    /\ IF ~isContestPeriod(now)
       THEN /\ console' = [console EXCEPT ![i] = Append(@, "not in contest period")]
            /\ pc' = [pc EXCEPT ![i] = "returned"]
            /\ UNCHANGED <<now, dateMinute, net>>
       ELSE \E d \in LaterReads :
            /\ now' = d
            /\ dateMinute' = [dateMinute EXCEPT ![i] = d]
            /\ IF ~is0Minute(d)
               THEN /\ console' = [console EXCEPT ![i] = Append(@, "not 0 minute")]
                    /\ pc' = [pc EXCEPT ![i] = "returned"]
                    /\ UNCHANGED net
               ELSE /\ net' = [net EXCEPT ![i] = callFetch(@, "GET")]
                    /\ pc' = [pc EXCEPT ![i] = "fetch"]
                    /\ UNCHANGED console
    /\ UNCHANGED <<payload, posted>>

\* API worker, lines 43-48: the gate check, then the fetch of the API.
ScheduledApi(i) ==
    /\ pc[i] = "idle"
    /\ worker' = [worker EXCEPT ![i] = "api"]
    /\ dateWindow' = [dateWindow EXCEPT ![i] = now]
    /\ IF ~isContestPeriod(now)
       THEN /\ console' = [console EXCEPT ![i] = Append(@, "not in contest period")]
            /\ pc' = [pc EXCEPT ![i] = "returned"]
            /\ UNCHANGED net
       ELSE /\ net' = [net EXCEPT ![i] = callFetch(@, "GET")]
            /\ pc' = [pc EXCEPT ![i] = "fetch"]
            /\ UNCHANGED console
    /\ UNCHANGED <<now, dateMinute, payload, posted>>

\* A content rendered from a document held in state shared by the
\* invocations: the one another invocation has parsed, when there is one.
contentHtmlShared(i, doc) ==
    LET md == tableToMarkdown(IF \E j \in Invocations : j # i /\ worker[j] = "html" /\ pc[j] # "fetch"
                              THEN payload[CHOOSE j \in Invocations : j # i /\ worker[j] = "html" /\ pc[j] # "fetch"]
                              ELSE doc)
    IN  [sent |-> TRUE, defined |-> md.defined, lines |-> md.lines]

\* The `content` an invocation of the HTML worker posts for a document.
contentHtml(i, doc) ==
    LET md == tableToMarkdown(doc)
    IN  [sent |-> TRUE, defined |-> md.defined, lines |-> md.lines]

\* HTML worker, lines 67-82: the page arrives and is parsed; without a table
\* the handler returns, otherwise it renders the table and posts the text.
FetchResolveHtml(i, docs) ==
    /\ pc[i] = "fetch"
    /\ worker[i] = "html"
    /\ \E doc \in docs :
        /\ payload' = [payload EXCEPT ![i] = doc]
        /\ IF ~doc.hasTable
           THEN /\ console' = [console EXCEPT ![i] = Append(@, "Table not found")]
                /\ pc' = [pc EXCEPT ![i] = "returned"]
                /\ UNCHANGED <<net, posted>>
           ELSE /\ console' = [console EXCEPT ![i] =
                                  IF doc.hasThead THEN @ ELSE Append(@, "Header not found")]
                /\ posted' = [posted EXCEPT ![i] = contentHtml(i, doc)]
                /\ net' = [net EXCEPT ![i] = callFetch(@, "POST")]
                /\ pc' = [pc EXCEPT ![i] = "post"]
    /\ UNCHANGED <<now, worker, dateWindow, dateMinute>>

\* API worker, lines 48-58: the body arrives; resp.json() or
\* responseToMarkdown may throw, otherwise the text is posted.
FetchResolveApi(i, bodies) ==
    /\ pc[i] = "fetch"
    /\ worker[i] = "api"
    /\ \E body \in bodies :
        /\ payload' = [payload EXCEPT ![i] = body]
        /\ LET md == responseToMarkdown(body.results)
           IN  IF ~body.parsed \/ md.threw
               THEN /\ pc' = [pc EXCEPT ![i] = "rejected"]
                    /\ UNCHANGED <<net, posted>>
               ELSE /\ posted' = [posted EXCEPT ![i] =
                                    [sent |-> TRUE, defined |-> TRUE, lines |-> md.lines]]
                    /\ net' = [net EXCEPT ![i] = callFetch(@, "POST")]
                    /\ pc' = [pc EXCEPT ![i] = "post"]
    /\ UNCHANGED <<now, worker, dateWindow, dateMinute, console>>

\* The awaited fetch rejects (a network error): the handler's promise rejects.
FetchReject(i) ==
    /\ pc[i] \in {"fetch", "post"}
    /\ pc' = [pc EXCEPT ![i] = "rejected"]
    /\ UNCHANGED <<now, worker, dateWindow, dateMinute, payload, net, posted, console>>

\* The POST to the webhook resolves and the handler returns.
PostResolve(i) ==
    /\ pc[i] = "post"
    /\ pc' = [pc EXCEPT ![i] = "returned"]
    /\ UNCHANGED <<now, worker, dateWindow, dateMinute, payload, net, posted, console>>

\* The invocation is over; the scheduler may use the slot for the next one.
Release(i) ==
    /\ pc[i] \in {"returned", "rejected"}
    /\ pc' = [pc EXCEPT ![i] = "idle"]
    /\ worker' = [worker EXCEPT ![i] = "none"]
    /\ dateWindow' = [dateWindow EXCEPT ![i] = 0]
    /\ dateMinute' = [dateMinute EXCEPT ![i] = 0]
    /\ payload' = [payload EXCEPT ![i] = NoPayload]
    /\ net' = [net EXCEPT ![i] = <<>>]
    /\ posted' = [posted EXCEPT ![i] = NotSent]
    /\ console' = [console EXCEPT ![i] = <<>>]
    /\ UNCHANGED now

\* Overlapping invocations of both workers, under a running clock.
Next ==
    \/ Tick
    \/ \E i \in Invocations : ScheduledHtml(i)
    \/ \E i \in Invocations : ScheduledApi(i)
    \/ \E i \in Invocations : FetchResolveHtml(i, HtmlDocsCompact)
    \/ \E i \in Invocations : FetchResolveApi(i, ApiBodiesCompact)
    \/ \E i \in Invocations : FetchReject(i)
    \/ \E i \in Invocations : PostResolve(i)
    \/ \E i \in Invocations : Release(i)

Spec == Init /\ [][Next]_vars

\* One invocation at a time, at the top of an hour inside the contest, over
\* all the payloads of up to MaxRows rows.
InitRender ==
    /\ Init
    /\ now = CONTEST_START_AT + 3600

NextRender ==
    \/ ScheduledHtml("a")
    \/ ScheduledApi("a")
    \/ FetchResolveHtml("a", HtmlDocs)
    \/ FetchResolveApi("a", ApiBodies)
    \/ PostResolve("a")
    \/ Release("a")

SpecRender == InitRender /\ [][NextRender]_vars

-----------------------------------------------------------------------------
(* Vocabulary of the properties.                                           *)

\* Invocation i of the HTML worker has posted a rendered table.
HtmlPosted(i) == worker[i] = "html" /\ posted[i].sent /\ posted[i].defined

\* Invocation i of the API worker has posted a rendered table.
ApiPosted(i) == worker[i] = "api" /\ posted[i].sent

\* The 0-based indexes held by a sequence of indexes.
IndexSet(seq) == {seq[k] : k \in 1..Len(seq)}

\* The truncation policy as specified: rows 0..10, and every row up to and
\* including the first tracked row when that row lies beyond index 10.
PolicyRows(n, tracked) ==
    LET first == IF tracked = {} THEN 0
                 ELSE CHOOSE t \in tracked : \A u \in tracked : t <= u
    IN  {idx \in 0..(n - 1) : idx <= 10 \/ (tracked # {} /\ first > 10 /\ idx <= first)}

\* The posted lines between the opening fence and the closing fence.
Fenced(lines) ==
    LET open == CHOOSE k \in 1..Len(lines) : lines[k] = FENCE \/ lines[k] = FENCE \o "markdown"
    IN  SubSeq(lines, open + 1, Len(lines) - 1)

\* Dense rank of the r-th item (1-based): score changes at or before it, plus 1.
DenseRank(results, r) ==
    1 + Cardinality({j \in 2..r : results[j].score # results[j - 1].score})

InWindow(t) == CONTEST_START_AT <= t /\ t <= CONTEST_END_AT

-----------------------------------------------------------------------------
(* C1 -- Truncation policy.  In both renderers the rendered body holds     *)
(* exactly the rows with index <= 10 and, when the first tracked row lies  *)
(* beyond index 10, the rows up to and including it.  (The code departs    *)
(* from this: see the trace TLC gives.)                                    *)
C1_TruncationPolicy ==
    \A i \in Invocations :
        /\ HtmlPosted(i) =>
              LET rows == payload[i].rows
              IN  IndexSet(shownHtml(rows)) =
                      PolicyRows(Len(rows), {idx \in 0..(Len(rows) - 1) : isMaximumRow(rows[idx + 1])})
        /\ ApiPosted(i) =>
              LET results == payload[i].results
                  shown == shownApi(results)
              IN  {shown[k].idx : k \in 1..Len(shown)} =
                      PolicyRows(Len(results),
                                 {idx \in 0..(Len(results) - 1) : results[idx + 1].teamName = "Maximum"})

(* C2 -- In the HTML worker, a fetched table without a <thead> leads to no *)
(* POST to the webhook.  (The code posts all the same.)                    *)
C2_NoPostWithoutHeader ==
    \A i \in Invocations :
        (worker[i] = "html" /\ payload[i].hasTable /\ ~payload[i].hasThead)
            => (~posted[i].sent /\ \A k \in 1..Len(net[i]) : net[i][k] # "POST")

(* C3 -- Rank Engine.  For a non-empty array given to responseToMarkdown   *)
(* the first item has rank 1, ranks never decrease, the rank grows by one  *)
(* exactly where the score differs from the previous item's and stays the  *)
(* same elsewhere: the rank of an item is its dense rank.                  *)
C3_DenseRanking ==
    \A i \in Invocations :
        ApiPosted(i) =>
            LET results == payload[i].results
                its == iterationsApi(results)
            IN  /\ Len(its) = Len(results)
                /\ its[1].rank = 1
                /\ \A k \in 1..(Len(its) - 1) :
                      /\ its[k + 1].rank >= its[k].rank
                      /\ (its[k + 1].rank = its[k].rank + 1)
                            <=> (results[k + 1].score # results[k].score)
                      /\ (results[k + 1].score = results[k].score)
                            => (its[k + 1].rank = its[k].rank)
                /\ \A k \in 1..Len(its) : its[k].rank = DenseRank(results, k)

\* An array with a tie and a score change next to each other was ranked.
C3_Witness ==
    \E i \in Invocations :
        /\ ApiPosted(i)
        /\ \E k \in 2..(Len(payload[i].results) - 1) :
              /\ payload[i].results[k].score = payload[i].results[k - 1].score
              /\ payload[i].results[k + 1].score # payload[i].results[k].score

(* C4 -- Time Gate.  An invocation fetches the leaderboard exactly when    *)
(* the time it read lies in the inclusive contest window and, in the HTML  *)
(* worker, the minute of the hour it read is 0; when the gate is false the *)
(* invocation returns with no fetch and no POST.                           *)
C4_TimeGate ==
    \A i \in Invocations :
        worker[i] # "none" =>
            LET gate == /\ InWindow(dateWindow[i])
                        /\ worker[i] = "html" => (dateMinute[i] \div 60) % 60 = 0
            IN  /\ gate => (Len(net[i]) >= 1 /\ net[i][1] = "GET")
                /\ ~gate => (net[i] = <<>> /\ ~posted[i].sent /\ pc[i] = "returned")

\* Scenario D: an invocation one minute before the window opens has returned
\* without any network call.
C4_Witness ==
    \E i \in Invocations :
        /\ worker[i] = "html"
        /\ dateWindow[i] = CONTEST_START_AT - 60
        /\ pc[i] = "returned"
        /\ net[i] = <<>>

(* C5 -- In the API worker an empty JSON array makes the invocation fail   *)
(* with an error, and no POST is made.                                     *)
C5_EmptyArrayFails ==
    \A i \in Invocations :
        (worker[i] = "api" /\ payload[i].parsed /\ payload[i].results = <<>>)
            => (pc[i] = "rejected" /\ ~posted[i].sent /\ net[i] = <<"GET">>)

\* An invocation of the API worker received the empty array.
C5_Witness ==
    \E i \in Invocations :
        worker[i] = "api" /\ payload[i].parsed /\ payload[i].results = <<>> /\ pc[i] = "rejected"

\* The 1-based positions of the tracked rows of a table body.
TrackedRows(rows) == {r \in 1..Len(rows) : isMaximumRow(rows[r])}

\* The last of a non-empty set of positions.
Last(S) == CHOOSE r \in S : \A q \in S : q <= r

(* C6 as stated -- Highlight line (HTML worker).  If a tracked row exists  *)
(* anywhere in the body, the text begins with "Maximum is **<rank>th**",   *)
(* <rank> being the first-column text of a tracked row; if none exists,    *)
(* the text has no highlight line (it begins with the page URL).           *)
C6_HighlightAsStated ==
    \A i \in Invocations :
        HtmlPosted(i) =>
            LET rows == payload[i].rows
                lines == posted[i].lines
            IN  IF TrackedRows(rows) # {}
                THEN \E r \in TrackedRows(rows) :
                        lines[1] = "Maximum is **" \o rows[r][1] \o "th**"
                ELSE lines[1] = RANKING_PAGE_URL

(* C6 amended -- Highlight line (HTML worker).  If a tracked row exists    *)
(* anywhere in the body and the first-column text of the last tracked row  *)
(* is not empty, the text begins with "Maximum is **<rank>th**", <rank>    *)
(* being that text, followed by the page URL; otherwise (no tracked row,   *)
(* or an empty first column in the last one) there is no highlight line.   *)
C6_Highlight ==
    \A i \in Invocations :
        HtmlPosted(i) =>
            LET rows == payload[i].rows
                lines == posted[i].lines
                tracked == TrackedRows(rows)
            IN  IF tracked # {} /\ rows[Last(tracked)][1] # ""
                THEN /\ lines[1] = "Maximum is **" \o rows[Last(tracked)][1] \o "th**"
                     /\ lines[2] = RANKING_PAGE_URL
                ELSE lines[1] = RANKING_PAGE_URL

\* A table whose only tracked row lies beyond index 10, so that its line is
\* cut from the body, was posted with the highlight line.
C6_Witness ==
    \E i \in Invocations :
        /\ HtmlPosted(i)
        /\ TrackedRows(payload[i].rows) # {}
        /\ \A r \in TrackedRows(payload[i].rows) : r - 1 > 10
        /\ posted[i].lines[1] # RANKING_PAGE_URL

\* The widest text of column c over the header and all the body rows.
WidestText(th, rows, c) ==
    LET lens == {Len(th[c])} \cup {Len(rows[r][c]) : r \in 1..Len(rows)}
    IN  CHOOSE w \in lens : \A v \in lens : v <= w

\* All body rows have as many cells as the header has columns.
Rectangular(doc) == \A r \in 1..Len(doc.rows) : Len(doc.rows[r]) = Len(doc.th)

(* C7 -- Column widths (HTML worker).  When every body row has as many     *)
(* cells as the header has columns, all the lines inside the fence have    *)
(* the same length, each column is as wide as the longest text of that     *)
(* column over the header and all body rows, rendered or not, and every    *)
(* rendered cell shows its whole text followed by spaces only.             *)
C7_ColumnWidths ==
    \A i \in Invocations :
        (HtmlPosted(i) /\ Rectangular(payload[i])) =>
            LET th == payload[i].th
                rows == payload[i].rows
                fenced == Fenced(posted[i].lines)
                shown == shownHtml(rows)
                width == [c \in 1..Len(th) |-> WidestText(th, rows, c)]
                cell(text, c) == text \o repeat(" ", width[c] - Len(text))
            IN  /\ Len(fenced) = 2 + Len(shown)
                /\ \A k \in 1..Len(fenced) : Len(fenced[k]) = Len(fenced[1])
                /\ fenced[1] = "| " \o join([c \in 1..Len(th) |-> cell(th[c], c)], " | ") \o " |"
                /\ fenced[2] = "| " \o join([c \in 1..Len(th) |-> repeat("-", width[c])], " | ") \o " |"
                /\ \A k \in 1..Len(shown) :
                      fenced[2 + k] =
                          "| " \o join([c \in 1..Len(th) |-> cell(rows[shown[k] + 1][c], c)], " | ") \o " |"

\* A posted table one of whose columns owes its width to a row that was cut
\* from the body.
C7_Witness ==
    \E i \in Invocations :
        /\ HtmlPosted(i)
        /\ Rectangular(payload[i])
        /\ \E r \in 1..Len(payload[i].rows) : \E c \in 1..Len(payload[i].th) :
              /\ (r - 1) \notin IndexSet(shownHtml(payload[i].rows))
              /\ Len(payload[i].rows[r][c]) > Len(payload[i].th[c])
              /\ \A q \in 1..Len(payload[i].rows) :
                    q # r => Len(payload[i].rows[q][c]) < Len(payload[i].rows[r][c])

\* The posted lines of the API worker between the separator and the fence.
ApiBodyLines(lines) == SubSeq(Fenced(lines), 3, Len(Fenced(lines)))

(* C8 -- In the API worker, for a non-empty array, every item whose        *)
(* teamName is exactly "Maximum" has its line in the rendered body,        *)
(* whatever its index.                                                     *)
C8_MaximumAlwaysShown ==
    \A i \in Invocations :
        ApiPosted(i) =>
            LET results == payload[i].results
                shown == shownApi(results)
                body == ApiBodyLines(posted[i].lines)
            IN  /\ Len(body) = Len(shown)
                /\ \A r \in 1..Len(results) :
                      results[r].teamName = "Maximum" =>
                          \E k \in 1..Len(shown) :
                              /\ shown[k].idx = r - 1
                              /\ body[k] = apiRowLine(shown[k].rank, results[r])

\* Two items named "Maximum", both beyond the first ten, were posted.
C8_Witness ==
    \E i \in Invocations :
        /\ ApiPosted(i)
        /\ \E r, q \in 11..Len(payload[i].results) :
              /\ r < q
              /\ payload[i].results[r].teamName = "Maximum"
              /\ payload[i].results[q].teamName = "Maximum"

(* C9 -- Pipeline of one invocation.  The network calls of an invocation   *)
(* are, in order, at most one leaderboard fetch and then at most one POST, *)
(* made only after the gate was passed; a POST is never made without the   *)
(* fetch before it; and the text an invocation posts is the rendering of   *)
(* its own fetched payload, whatever the other invocations are doing.      *)
C9_Pipeline ==
    \A i \in Invocations :
        /\ net[i] \in {<<>>, <<"GET">>, <<"GET", "POST">>}
        /\ net[i] # <<>> => (worker[i] # "none" /\ InWindow(dateWindow[i]))
        /\ pc[i] = "idle" => net[i] = <<>>
        /\ pc[i] = "fetch" => (net[i] = <<"GET">> /\ payload[i] = NoPayload)
        /\ pc[i] = "post" => net[i] = <<"GET", "POST">>
        /\ posted[i].sent <=> net[i] = <<"GET", "POST">>
        /\ (posted[i].sent /\ worker[i] = "html") =>
              /\ payload[i].hasTable
              /\ posted[i].defined = tableToMarkdown(payload[i]).defined
              /\ posted[i].lines = tableToMarkdown(payload[i]).lines
        /\ (posted[i].sent /\ worker[i] = "api") =>
              /\ payload[i].parsed
              /\ posted[i].lines = responseToMarkdown(payload[i].results).lines

\* Two overlapping invocations of the HTML worker are both awaiting their
\* POST, of different texts.
C9_Witness ==
    \E i, j \in Invocations :
        /\ i # j
        /\ pc[i] = "post" /\ pc[j] = "post"
        /\ worker[i] = "html" /\ worker[j] = "html"
        /\ posted[i].lines # posted[j].lines

(* C10 -- In the API worker the rank printed on a rendered row is the      *)
(* row's dense rank over the whole, untruncated array: the rank counter    *)
(* advances on the rows that are cut as well.                              *)
C10_PrintedRankIsGlobal ==
    \A i \in Invocations :
        ApiPosted(i) =>
            LET results == payload[i].results
                shown == shownApi(results)
                body == ApiBodyLines(posted[i].lines)
            IN  /\ Len(body) = Len(shown)
                /\ \A k \in 1..Len(shown) :
                      body[k] = apiRowLine(DenseRank(results, shown[k].idx + 1),
                                           results[shown[k].idx + 1])

\* A "Maximum" row beyond the first ten was rendered after rows that were
\* cut, and its rank is neither its position among the rendered rows nor
\* its position in the array.
C10_Witness ==
    \E i \in Invocations :
        /\ ApiPosted(i)
        /\ LET results == payload[i].results
               shown == shownApi(results)
           IN  \E k \in 1..Len(shown) :
                  /\ shown[k].idx >= 10
                  /\ shown[k].idx + 1 > k
                  /\ DenseRank(results, shown[k].idx + 1) \notin {1, k, shown[k].idx + 1}

====
